---- MODULE Spec2Model ----
(***************************************************************************)
(* Model of CerebNet/datasets/utils.py: the crop/pad engine                *)
(* (crop_transform and its helpers), the resize routines (map_size,        *)
(* map_size_leg), the bounding-volume routines (bounding_volume,           *)
(* bounding_volume_offset) and the reader of transform files (readLTA).    *)
(*                                                                         *)
(* The array routines are pure functions of their arguments (plus the      *)
(* optional output buffer `out` of crop_transform, which is written in     *)
(* place).  A behaviour is one call: Init draws the arguments, the action  *)
(* runs the routine and stores what it returned or raised.  readLTA runs   *)
(* one line of the file per step, with its local variables in `frame`.     *)
(*                                                                         *)
(* Arrays are records [shape, data]; data maps 0-based index tuples to     *)
(* voxel values.  Slices follow Python's rules (negative bounds wrap,      *)
(* bounds are clipped to the extent, an inverted range is empty).          *)
(***************************************************************************)
EXTENDS Integers, Sequences, FiniteSets, TLC

VARIABLES pc, args, out, ret, frame

vars == <<pc, args, out, ret, frame>>

(***************************************************************************)
(* Bounds of the explored inputs.                                          *)
(***************************************************************************)
MaxDim == 3

MaxExt == 2

MaxOff == 2

MaxTarget == 2

MaxOut == 1

MaxVol == 2

MaxTs == 3

MaxLen == 4

MaxItems == 4

(***************************************************************************)
(* Python / numpy primitives.                                              *)
(***************************************************************************)
Max(a, b) == IF a >= b THEN a ELSE b

Min(a, b) == IF a <= b THEN a ELSE b

Abs(a) == IF a >= 0 THEN a ELSE -a

\* Optional values: Python's None and a present value.
None == [some |-> FALSE, v |-> <<>>]

Some(x) == [some |-> TRUE, v |-> x]

\* a // 2 : floor division (rounds towards minus infinity).
FloorDiv2(a) == a \div 2

\* int(a / 2) : true division followed by truncation towards zero.
TruncDiv2(a) == IF a >= 0 THEN a \div 2 ELSE -((-a) \div 2)

\* slice(lo, hi) and slice(None, None).
Slice(lo, hi) == [full |-> FALSE, lo |-> lo, hi |-> hi]

SliceAll == [full |-> TRUE, lo |-> 0, hi |-> 0]

\* A slice bound resolved against an axis of extent n.
NormBound(x, n) == IF x < 0 THEN Max(0, x + n) ELSE Min(x, n)

\* <<first, length>> selected by a slice on an axis of extent n.
SliceRange(sl, n) ==
    IF sl.full THEN <<0, n>>
    ELSE LET a == NormBound(sl.lo, n)
             b == NormBound(sl.hi, n)
         IN <<a, Max(0, b - a)>>

\* s[:-k] and s[-k:] of a tuple s.
DropLast(s, k) == SubSeq(s, 1, NormBound(-k, Len(s)))

TakeLast(s, k) == SubSeq(s, NormBound(-k, Len(s)) + 1, Len(s))

\* zip(x, y) stops at the shorter argument.
ZipLen(x, y) == Min(Len(x), Len(y))

\* All 0-based index tuples of an array of the given shape.
RECURSIVE Indices(_)
Indices(shape) ==
    IF Len(shape) = 0 THEN {<<>>}
    ELSE IF Len(shape) = 2 THEN (0..(shape[1] - 1)) \X (0..(shape[2] - 1))
    ELSE IF Len(shape) = 3
    THEN (0..(shape[1] - 1)) \X (0..(shape[2] - 1)) \X (0..(shape[3] - 1))
    ELSE {Append(p, k) : p \in Indices(SubSeq(shape, 1, Len(shape) - 1)),
                         k \in 0..(shape[Len(shape)] - 1)}

\* arr[tuple(sels)]: basic indexing with one slice per axis; axes beyond
\* the given slices are taken whole.
GetItem(arr, sels) ==
    LET n == Len(arr.shape)
        rng == [a \in 1..n |-> IF a <= Len(sels) THEN SliceRange(sels[a], arr.shape[a])
                                ELSE <<0, arr.shape[a]>>]
        shp == [a \in 1..n |-> rng[a][2]]
    IN [shape |-> shp,
        data |-> [idx \in Indices(shp) |-> arr.data[[a \in 1..n |-> idx[a] + rng[a][1]]]]]

\* np.pad(arr, pads, mode=..., constant_values=value) for the modes
\* "constant" and "edge"; pads holds one (before, after) pair per axis.
np_pad(arr, pads, mode, value) ==
    LET n == Len(arr.shape)
        shp == [a \in 1..n |-> arr.shape[a] + pads[a][1] + pads[a][2]]
        inside(idx) == \A a \in 1..n : /\ idx[a] >= pads[a][1]
                                       /\ idx[a] < pads[a][1] + arr.shape[a]
        clip(idx) == [a \in 1..n |-> Max(0, Min(arr.shape[a] - 1, idx[a] - pads[a][1]))]
    IN [shape |-> shp,
        data |-> [idx \in Indices(shp) |->
                     IF mode = "edge" THEN arr.data[clip(idx)]
                     ELSE IF inside(idx) THEN arr.data[[a \in 1..n |-> idx[a] - pads[a][1]]]
                     ELSE value]]

\* The volumes fed to the routines carry a distinct non-zero value in every
\* voxel, so that the position of every voxel can be told from the result.
RECURSIVE Code(_)
Code(idx) == IF Len(idx) = 0 THEN 0
             ELSE 10 * Code(SubSeq(idx, 1, Len(idx) - 1)) + idx[Len(idx)] + 1

Labelled(shape) == [shape |-> shape, data |-> [idx \in Indices(shape) |-> Code(idx)]]

(***************************************************************************)
(* map_size                                                                *)
(***************************************************************************)
\* Variants of the loop body of map_size, each with one slip.
\* The same amount is padded on both sides.
map_size_axis_even_pad(i, j) ==
    LET delta == i - j
        left == FloorDiv2(delta)
    IN [sel |-> IF delta > 0 THEN Slice(left, left + j) ELSE SliceAll,
        pad |-> IF delta > 0 THEN <<0, 0>> ELSE <<-left, -left>>,
        border |-> <<-left, -left + i>>]

\* The borders are taken from the truncated half instead of the floor half.
map_size_axis_trunc_border(i, j) ==
    LET delta == i - j
        left == FloorDiv2(delta)
    IN [sel |-> IF delta > 0 THEN Slice(left, left + j) ELSE SliceAll,
        pad |-> IF delta > 0 THEN <<0, 0>> ELSE <<-left, left - delta>>,
        border |-> <<-TruncDiv2(delta), -TruncDiv2(delta) + i>>]

\* The half is truncated towards zero instead of floored.
map_size_axis_trunc(i, j) ==
    LET delta == i - j
        left == TruncDiv2(delta)
    IN [sel |-> IF delta > 0 THEN Slice(left, left + j) ELSE SliceAll,
        pad |-> IF delta > 0 THEN <<0, 0>> ELSE <<-left, left - delta>>,
        border |-> <<-left, -left + i>>]

\* One turn of the loop of map_size: i is the input extent, j the base extent.
map_size_axis(i, j) ==
    LET delta == i - j
        left == FloorDiv2(delta)
    IN [sel |-> IF delta > 0 THEN Slice(left, left + j) ELSE SliceAll,
        pad |-> IF delta > 0 THEN <<0, 0>> ELSE <<-left, left - delta>>,
        border |-> <<-left, -left + i>>]

map_size(arr, base_shape, return_border) ==
    IF arr.shape = base_shape
    THEN [arr |-> arr,
          borders |-> IF return_border
                      THEN Some(<<<<0, arr.shape[1]>>, <<0, arr.shape[2]>>, <<0, arr.shape[3]>>>>)
                      ELSE None]
    ELSE LET n == ZipLen(arr.shape, base_shape)
             ax == [a \in 1..n |-> map_size_axis(arr.shape[a], base_shape[a])]
             _selection == [a \in 1..n |-> ax[a].sel]
             _pad == [a \in 1..n |-> ax[a].pad]
             _unpad_borders == [a \in 1..n |-> ax[a].border]
             sliced == GetItem(arr, _selection)
             padded == IF \E a \in 1..n : _pad[a][1] # 0 \/ _pad[a][2] # 0
                       THEN np_pad(sliced, _pad, "constant", 0)
                       ELSE sliced
         IN [arr |-> padded,
             borders |-> IF return_border THEN Some(_unpad_borders) ELSE None]

(***************************************************************************)
(* Calls of map_size.                                                      *)
(***************************************************************************)
Shapes3 == {<<a, b, c>> : a \in 1..MaxDim, b \in 1..MaxDim, c \in 1..MaxDim}

NoArray == [shape |-> <<0>>, data |-> <<>>]

NoReturn == [status |-> "none"]

\* The local variables of a routine that runs in one step are not modelled.
NoFrame == [i |-> 0, d |-> <<>>]

InitMap ==
    /\ pc = "call"
    /\ args \in {[fn |-> "map_size", arr |-> Labelled(s), base_shape |-> b, return_border |-> rb] :
                    s \in Shapes3, b \in Shapes3, rb \in BOOLEAN}
    /\ out = None
    /\ ret = NoReturn
    /\ frame = NoFrame

CallMapSize ==
    /\ pc = "call"
    /\ args.fn = "map_size"
    /\ LET r == map_size(args.arr, args.base_shape, args.return_border)
       IN ret' = [status |-> "ok", arr |-> r.arr, borders |-> r.borders]
    /\ pc' = "done"
    /\ UNCHANGED <<args, out, frame>>

NextMap == CallMapSize

SpecMap == InitMap /\ [][NextMap]_vars

(***************************************************************************)
(* Properties of map_size.                                                 *)
(***************************************************************************)
MapDone == pc = "done" /\ args.fn = "map_size"

\* The array V resized by the signed amounts low[a] and high[a] on the low
\* and the high side of axis a (positive: that many voxels of fill are
\* added, negative: that many voxels are removed).
Resized(V, low, high, fill) ==
    LET n == Len(V.shape)
        shp == [a \in 1..n |-> V.shape[a] + low[a] + high[a]]
    IN [shape |-> shp,
        data |-> [idx \in Indices(shp) |->
                     IF \A a \in 1..n : idx[a] - low[a] >= 0 /\ idx[a] - low[a] < V.shape[a]
                     THEN V.data[[a \in 1..n |-> idx[a] - low[a]]]
                     ELSE fill]]

\* ret.arr sliced at the returned borders, [borders[a][0], borders[a][1]).
MapUnpadded ==
    GetItem(ret.arr, [a \in 1..Len(ret.borders.v) |->
                         Slice(ret.borders.v[a][1], ret.borders.v[a][2])])

MapNoAxisLarger == \A a \in 1..3 : args.arr.shape[a] <= args.base_shape[a]

\* C1 as stated: whenever map_size returns borders, slicing the result at the
\* borders gives back the input volume, whatever the relation of the shapes.
C1_RoundTripAnyShape ==
    (MapDone /\ args.return_border) => MapUnpadded = args.arr

\* C1 (amended): when no axis of the input is larger than the base shape
\* (every axis is padded or unchanged), slicing the result of map_size at the
\* returned borders gives back the input volume, shape and voxel values.
C1_RoundTripWhenPadded ==
    (MapDone /\ args.return_border /\ MapNoAxisLarger) => MapUnpadded = args.arr

C1_Witness ==
    /\ MapDone /\ args.return_border /\ MapNoAxisLarger
    /\ args.base_shape[1] - args.arr.shape[1] = 1
    /\ args.base_shape[2] - args.arr.shape[2] = 2
    /\ args.base_shape[3] = args.arr.shape[3]
    /\ MapUnpadded = args.arr

\* C3: the array returned by map_size has exactly the base shape, for every
\* mix of cropped, padded and unchanged axes.
C3_MapShape == MapDone => ret.arr.shape = args.base_shape

C3_Witness ==
    /\ MapDone
    /\ args.arr.shape[1] - args.base_shape[1] = 1
    /\ args.base_shape[2] - args.arr.shape[2] = 1
    /\ args.arr.shape[3] = args.base_shape[3]
    /\ ret.arr.shape = args.base_shape

MapD(a) == Abs(args.arr.shape[a] - args.base_shape[a])

MapCrops(a) == args.arr.shape[a] > args.base_shape[a]

\* C7 as stated: on every axis floor(d/2) voxels are removed or padded on the
\* low side and d - floor(d/2) on the high side.
C7_FloorHalfLow ==
    MapDone =>
        ret.arr = Resized(args.arr,
                          [a \in 1..3 |-> IF MapCrops(a) THEN -(MapD(a) \div 2)
                                           ELSE MapD(a) \div 2],
                          [a \in 1..3 |-> IF MapCrops(a) THEN -(MapD(a) - MapD(a) \div 2)
                                           ELSE MapD(a) - MapD(a) \div 2],
                          0)

\* C7 (amended): a cropped axis loses floor(d/2) voxels on the low side and
\* d - floor(d/2) on the high side; a padded axis gets d - floor(d/2) zero
\* voxels on the low side and floor(d/2) on the high side.
C7_MapCentering ==
    MapDone =>
        ret.arr = Resized(args.arr,
                          [a \in 1..3 |-> IF MapCrops(a) THEN -(MapD(a) \div 2)
                                           ELSE MapD(a) - MapD(a) \div 2],
                          [a \in 1..3 |-> IF MapCrops(a) THEN -(MapD(a) - MapD(a) \div 2)
                                           ELSE MapD(a) \div 2],
                          0)

C7_Witness ==
    /\ MapDone
    /\ args.arr.shape[1] - args.base_shape[1] = 1
    /\ args.base_shape[2] - args.arr.shape[2] = 1
    /\ args.base_shape[3] - args.arr.shape[3] = 2
    /\ ret.arr.data[<<0, 0, 0>>] = 0
    /\ ret.arr.data[<<0, 1, 1>>] = args.arr.data[<<0, 0, 0>>]

(***************************************************************************)
(* crop_transform and its helpers                                          *)
(***************************************************************************)
\* The exceptions the routines raise.
ErrEither == "ValueError: Either target_shape or offsets must be defined!"

ErrIncompatible == "ValueError: Incompatible offset and target_shape dimensionality"

ErrDim == "RuntimeError: shape of offsets is larger than dim of image allows."

ErrSameLength == "ValueError: offsets and target shape must be same length."

ErrTooLong == "ValueError: offsets too long for image"

ErrPadEmpty == "ValueError: can't extend empty axis using modes other than constant"

ErrBroadcast == "ValueError: could not broadcast input array into shape of out"

\* One turn of the loop of _crop_transform_make_indices.
make_indices_axis(offset, t_shape, i_shape) ==
    LET crop_end == Min(offset + t_shape, i_shape)
    IN [index |-> Slice(Max(0, offset), crop_end),
        pads |-> <<Max(0, -offset), Max(0, offset + t_shape - crop_end)>>]

_crop_transform_make_indices(image_shape, offsets, target_shape) ==
    IF Len(offsets) # Len(target_shape)
    THEN [err |-> ErrSameLength, paddings |-> None, indices |-> <<>>]
    ELSE IF Len(offsets) > Len(image_shape)
    THEN [err |-> ErrTooLong, paddings |-> None, indices |-> <<>>]
    ELSE LET batch_dims == Len(image_shape) - Len(offsets)
             ax == [a \in 1..Len(offsets) |->
                       make_indices_axis(offsets[a], target_shape[a], image_shape[batch_dims + a])]
             indices == [a \in 1..Len(image_shape) |->
                            IF a <= batch_dims THEN SliceAll ELSE ax[a - batch_dims].index]
             paddings == [a \in 1..Len(offsets) |-> ax[a].pads]
             any_pad == \E a \in 1..Len(offsets) : paddings[a][1] # 0 \/ paddings[a][2] # 0
         IN [err |-> "", paddings |-> IF any_pad THEN Some(paddings) ELSE None,
             indices |-> indices]

\* np.pad refuses to extend an empty axis unless the mode is "constant".
np_pad_raises(arr, pads, mode) ==
    /\ mode # "constant"
    /\ \E a \in 1..Len(arr.shape) : arr.shape[a] = 0
    /\ \E a \in 1..Len(arr.shape) : arr.shape[a] = 0 /\ (pads[a][1] # 0 \/ pads[a][2] # 0)

\* The pad function built by _crop_transform_pad_fn for an ndarray, applied
\* to the sliced image: pad_width is (0, 0) on the batch axes.
_crop_transform_pad_fn(sliced, pad_tuples, pad) ==
    LET n == Len(sliced.shape)
        k == n - Len(pad_tuples)
        pad_width == [a \in 1..n |-> IF a <= k THEN <<0, 0>> ELSE pad_tuples[a - k]]
    IN IF np_pad_raises(sliced, pad_width, pad.mode)
       THEN [err |-> ErrPadEmpty, arr |-> sliced]
       ELSE [err |-> "", arr |-> np_pad(sliced, pad_width, pad.mode, pad.value)]

\* Variant: the shape of out is not taken as the target shape.
implied_target_shape_ignores_out(target_shape, outbuf) == target_shape

\* target_shape as the first statement of crop_transform leaves it: the
\* shape of out when target_shape is omitted and out is given.
implied_target_shape(target_shape, outbuf) ==
    IF ~target_shape.some /\ outbuf.some THEN Some(outbuf.v.shape) ELSE target_shape

\* Variant: the default offset is the floor half, (i - t) // 2.
default_offset_floor(i, t) == FloorDiv2(i - t)

\* The default offset of an axis of extent i for the target extent t.
default_offset(i, t) == TruncDiv2(i - t)

\* The offsets and the full target shape crop_transform works with.
crop_transform_resolve(image_shape, offsets, target_shape, outbuf) ==
    LET ts == implied_target_shape(target_shape, outbuf)
        nd == Len(image_shape)
    IN IF ~offsets.some
       THEN IF ~ts.some
            THEN [err |-> ErrEither, offsets |-> <<>>, _target_shape |-> <<>>]
            ELSE LET _ts == DropLast(image_shape, Len(ts.v)) \o ts.v
                     offs == [a \in 1..ZipLen(_ts, image_shape) |->
                                 default_offset(image_shape[a], _ts[a])]
                 IN [err |-> IF Len(offs) > nd THEN ErrDim ELSE "",
                     offsets |-> offs, _target_shape |-> _ts]
       ELSE LET len_off == Len(offsets.v)
                last == TakeLast(image_shape, len_off)
            IN IF ~ts.some
               THEN [err |-> IF len_off > nd THEN ErrDim ELSE "",
                     offsets |-> offsets.v,
                     _target_shape |-> DropLast(image_shape, len_off) \o
                         [a \in 1..ZipLen(last, offsets.v) |-> last[a] - 2 * offsets.v[a]]]
               ELSE IF len_off # Len(ts.v)
               THEN [err |-> ErrIncompatible, offsets |-> offsets.v, _target_shape |-> <<>>]
               ELSE [err |-> IF len_off > nd THEN ErrDim ELSE "",
                     offsets |-> offsets.v,
                     _target_shape |-> DropLast(image_shape, len_off) \o
                         [a \in 1..ZipLen(last, ts.v) |->
                             IF ts.v[a] = -1 THEN last[a] ELSE ts.v[a]]]

\* out[:] = value, with numpy's broadcasting of value to the shape of out.
RECURSIVE StripOnes(_, _)
StripOnes(s, n) == IF Len(s) > n /\ s[1] = 1 THEN StripOnes(Tail(s), n) ELSE s

CanBroadcast(src_shape, dst_shape) ==
    LET s == StripOnes(src_shape, Len(dst_shape))
        k == Len(dst_shape) - Len(s)
    IN /\ k >= 0
       /\ \A a \in 1..Len(s) : s[a] = dst_shape[k + a] \/ s[a] = 1

SetAll(dst, src) ==
    LET lead == Len(src.shape) - Len(StripOnes(src.shape, Len(dst.shape)))
        k == Len(dst.shape) - Len(src.shape)
    IN [shape |-> dst.shape,
        data |-> [idx \in Indices(dst.shape) |->
                     src.data[[a \in 1..Len(src.shape) |->
                                  IF a <= lead \/ src.shape[a] = 1 THEN 0 ELSE idx[k + a]]]]]

Raised(err, outbuf) == [status |-> "raise", err |-> err, arr |-> NoArray, out |-> outbuf]

crop_transform(image, offsets, target_shape, outbuf, pad) ==
    LET r == crop_transform_resolve(image.shape, offsets, target_shape, outbuf)
    IN IF r.err # "" THEN Raised(r.err, outbuf)
       ELSE LET m == _crop_transform_make_indices(image.shape, r.offsets, r._target_shape)
            IN IF m.err # "" THEN Raised(m.err, outbuf)
               ELSE LET sliced == GetItem(image, m.indices)
                        p == IF m.paddings.some
                             THEN _crop_transform_pad_fn(sliced, m.paddings.v, pad)
                             ELSE [err |-> "", arr |-> sliced]
                    IN IF p.err # "" THEN Raised(p.err, outbuf)
                       ELSE IF ~outbuf.some
                       THEN [status |-> "ok", err |-> "", arr |-> p.arr, out |-> outbuf]
                       ELSE IF ~CanBroadcast(p.arr.shape, outbuf.v.shape)
                       THEN Raised(ErrBroadcast, outbuf)
                       ELSE LET written == SetAll(outbuf.v, p.arr)
                            IN [status |-> "ok", err |-> "", arr |-> written,
                                out |-> Some(written)]

(***************************************************************************)
(* Calls of crop_transform.                                                *)
(***************************************************************************)
SeqsUpTo2(S) == {<<x>> : x \in S} \cup {<<x, y>> : x \in S, y \in S}

ImageShapes == SeqsUpTo2(1..MaxExt)

OffsetArgs == {None} \cup {Some(o) : o \in SeqsUpTo2(-MaxOff..MaxOff)}

TargetArgs == {None} \cup {Some(t) : t \in SeqsUpTo2(-1..MaxTarget)}

\* An output buffer holds -1 in every cell before the call.
Blank(shape) == [shape |-> shape, data |-> [idx \in Indices(shape) |-> -1]]

OutArgs == {None} \cup {Some(Blank(s)) : s \in SeqsUpTo2(1..MaxOut)}

PadArgs == {[mode |-> "constant", value |-> 7], [mode |-> "edge", value |-> 0]}

InitCrop ==
    /\ pc = "call"
    /\ args \in {[fn |-> "crop_transform", image |-> Labelled(s), offsets |-> o,
                  target_shape |-> t, pad |-> p] :
                    s \in ImageShapes, o \in OffsetArgs, t \in TargetArgs, p \in PadArgs}
    /\ out \in OutArgs
    /\ ret = NoReturn
    /\ frame = NoFrame

CallCropTransform ==
    /\ pc = "call"
    /\ args.fn = "crop_transform"
    /\ LET r == crop_transform(args.image, args.offsets, args.target_shape, out, args.pad)
       IN /\ ret' = [status |-> r.status, err |-> r.err, arr |-> r.arr]
          /\ out' = r.out
    /\ pc' = "done"
    /\ UNCHANGED <<args, frame>>

NextCrop == CallCropTransform

SpecCrop == InitCrop /\ [][NextCrop]_vars

(***************************************************************************)
(* Properties of crop_transform.                                           *)
(***************************************************************************)
CropDone == pc = "done" /\ args.fn = "crop_transform"

CropNd == Len(args.image.shape)

\* The array the documentation of crop_transform describes for offsets offs
\* and target extents t on the last Len(offs) axes: voxel k of the result is
\* voxel k + offs of the image where that exists and fill elsewhere; the
\* leading axes are kept.
Cropped(image, offs, t, fill) ==
    LET n == Len(image.shape)
        k == n - Len(offs)
        o == [a \in 1..n |-> IF a <= k THEN 0 ELSE offs[a - k]]
        shp == [a \in 1..n |-> IF a <= k THEN image.shape[a] ELSE t[a - k]]
    IN [shape |-> shp,
        data |-> [idx \in Indices(shp) |->
                     IF \A a \in 1..n : idx[a] + o[a] >= 0 /\ idx[a] + o[a] < image.shape[a]
                     THEN image.data[[a \in 1..n |-> idx[a] + o[a]]]
                     ELSE fill]]

CropExplicit ==
    /\ CropDone /\ args.offsets.some /\ args.target_shape.some
    /\ Len(args.offsets.v) = Len(args.target_shape.v)
    /\ Len(args.offsets.v) <= CropNd
    /\ \A a \in 1..Len(args.target_shape.v) : args.target_shape.v[a] >= 0
    /\ ~out.some

\* C2 as stated: for all offsets (negative ones and ones at or beyond the
\* extent included) and every non-negative target_shape of the same length,
\* crop_transform returns an array whose trailing shape is target_shape.
C2_CropShape ==
    CropExplicit /\ args.pad.mode = "constant" =>
        /\ ret.status = "ok"
        /\ TakeLast(ret.arr.shape, Len(args.target_shape.v)) = args.target_shape.v

CropD(a) == Abs(args.image.shape[a] - ret.arr.shape[a])

CropInWindow ==
    \A a \in 1..Len(args.offsets.v) :
        /\ -args.target_shape.v[a] <= args.offsets.v[a]
        /\ args.offsets.v[a] <= args.image.shape[CropNd - Len(args.offsets.v) + a]

\* C8 as stated: for offsets with -target <= offset <= extent on every axis
\* and a constant pad value p, voxel k of the result is voxel k + offset of
\* the image where that exists and p elsewhere, and the leading batch axes
\* are passed through.
C8_CropValues ==
    (CropExplicit /\ CropInWindow /\ args.pad.mode = "constant")
    => /\ ret.status = "ok"
       /\ ret.arr = Cropped(args.image, args.offsets.v, args.target_shape.v, args.pad.value)

\* The outcome of the call had target_shape been passed as the shape of out.
CropWithOutShape ==
    crop_transform(args.image, args.offsets, Some(out.v.shape),
                   Some(Blank(out.v.shape)), args.pad)

\* C9: the call fails with "Either target_shape or offsets must be defined"
\* exactly when offsets, target_shape and out are all omitted; with out given
\* and target_shape omitted the call behaves as if target_shape were the
\* shape of out.
C9_TargetFromOut ==
    CropDone =>
        /\ (ret.err = ErrEither) <=>
               (~args.offsets.some /\ ~args.target_shape.some /\ ~out.some)
        /\ (out.some /\ ~args.target_shape.some) =>
               /\ ret = [status |-> CropWithOutShape.status, err |-> CropWithOutShape.err,
                         arr |-> CropWithOutShape.arr]
               /\ out = CropWithOutShape.out

C9_Witness ==
    /\ CropDone /\ ~args.offsets.some /\ ~args.target_shape.some /\ out.some
    /\ args.image.shape = <<1, 2>>
    /\ out.v.shape = <<1, 1>>
    /\ ret.status = "ok"
    /\ out.v.data = (<<0, 0>> :> 11)

C9_WitnessRaise ==
    /\ CropDone /\ ~args.offsets.some /\ ~args.target_shape.some /\ ~out.some
    /\ ret.err = ErrEither

CropResolved ==
    crop_transform_resolve(args.image.shape, args.offsets, args.target_shape,
                           Some(Blank(out.v.shape)))

\* C10 as stated: when out is supplied and its shape differs from the
\* resolved target shape, the call raises and out is left as it was.
C10_OutMismatchRaises ==
    (/\ CropDone /\ out.some /\ args.target_shape.some
     /\ CropResolved.err = "" => CropResolved._target_shape # out.v.shape)
    => /\ ret.status = "raise"
       /\ out = Some(Blank(out.v.shape))

\* A call with a target_shape of sentinels (-1) and non-negative extents for
\* the last axes of the image, offsets omitted or of the same length.
CropWithTarget ==
    /\ CropDone /\ args.target_shape.some /\ ~out.some
    /\ Len(args.target_shape.v) <= CropNd
    /\ args.offsets.some => Len(args.offsets.v) = Len(args.target_shape.v)

CropBatch == CropNd - Len(args.target_shape.v)

\* C11 as stated: on every axis where target_shape holds the sentinel -1 the
\* extent of the result equals the extent of the image on that axis, with
\* offsets supplied and with offsets omitted.
C11_SentinelKeepsExtent ==
    (CropWithTarget /\ args.pad.mode = "constant")
    => /\ ret.status = "ok"
       /\ \A a \in 1..Len(args.target_shape.v) :
              args.target_shape.v[a] = -1 =>
                  ret.arr.shape[CropBatch + a] = args.image.shape[CropBatch + a]

(***************************************************************************)
(* bounding_volume and bounding_volume_offset                              *)
(***************************************************************************)
ErrIndex == "IndexError: index 0 is out of bounds for axis 0 with size 0"

ErrInsufficient == "RuntimeError: Insufficient image size for target image size"

SetMin(S) == CHOOSE m \in S : \A x \in S : m <= x

SetMax(S) == CHOOSE m \in S : \A x \in S : x <= m

\* np.where(np.any(img != 0, axis=<the other axes>))[0]: the indices on
\* axis a at which the volume holds a non-zero voxel.
NonZeroOnAxis(img, a) == {idx[a] : idx \in {i \in Indices(img.shape) : img.data[i] # 0}}

\* Variant: the slack is taken against the number of voxels of the box,
\* max - min + 1.
bounding_volume_axis_tight(lo, hi, extent, target) ==
    LET dx == target - (hi - lo + 1)
        lowhigh == <<FloorDiv2(dx), dx - FloorDiv2(dx)>>
    IN <<Max(0, lo - lowhigh[1]), Min(extent, hi + lowhigh[2])>>

\* The slice of one axis: lo and hi are the first and the last non-zero
\* index, extent the extent of the axis, target the target size.
bounding_volume_axis(lo, hi, extent, target) ==
    LET dx == target - (hi - lo)
        lowhigh == <<FloorDiv2(dx), dx - FloorDiv2(dx)>>
    IN <<Max(0, lo - lowhigh[1]), Min(extent, hi + lowhigh[2])>>

bounding_volume(img, target_img_size) ==
    IF \E a \in 1..3 : NonZeroOnAxis(img, a) = {}
    THEN [status |-> "raise", err |-> ErrIndex, roi |-> <<>>]
    ELSE [status |-> "ok", err |-> "",
          roi |-> [a \in 1..3 |->
                      bounding_volume_axis(SetMin(NonZeroOnAxis(img, a)),
                                           SetMax(NonZeroOnAxis(img, a)),
                                           img.shape[a], target_img_size[a])]]

\* FastSurferCNN.data_loader.data_utils.bbox_3d of a volume with a non-zero
\* voxel: (rmin, rmax, cmin, cmax, zmin, zmax).
bbox_3d(img) ==
    [k \in 1..6 |-> IF k % 2 = 1 THEN SetMin(NonZeroOnAxis(img, (k + 1) \div 2))
                    ELSE SetMax(NonZeroOnAxis(img, k \div 2))]

\* bbox[::2] + bbox[1::2]
MinsThenMaxs(bbox) ==
    [k \in 1..Len(bbox) |->
        IF k <= (Len(bbox) + 1) \div 2 THEN bbox[2 * k - 1]
        ELSE bbox[2 * (k - (Len(bbox) + 1) \div 2)]]

\* int(round(n / 2)) for an integer n: Python rounds a half to the even
\* neighbour.
RoundHalf(n) ==
    LET k == FloorDiv2(n)
    IN IF n % 2 = 0 THEN k ELSE IF k % 2 = 0 THEN k ELSE k + 1

\* Variant: the offset is not clamped from above.
clamp_offset_low_only(o, ts, imgs) == Max(0, o)

\* min(max(0, o), imgs - ts)
clamp_offset(o, ts, imgs) == Min(Max(0, o), imgs - ts)

\* img is a volume, [array |-> TRUE, vol |-> ...], or a sequence of the
\* minima followed by the maxima, [array |-> FALSE, bbox |-> ...];
\* image_shape is optional.
bounding_volume_offset(img, target_img_size, image_shape) ==
    LET bbox == IF img.array THEN MinsThenMaxs(bbox_3d(img.vol)) ELSE img.bbox
        half == Len(bbox) \div 2
        n == Min(half, Len(bbox) - half)
        m == Min(n, Len(target_img_size))
        \* center - ts / 2 = (max + min - ts) / 2
        offset == [a \in 1..m |->
                      Max(0, RoundHalf(bbox[half + a] + bbox[a] - target_img_size[a]))]
        img_shape == IF image_shape.some THEN image_shape
                     ELSE IF img.array THEN Some(img.vol.shape)
                     ELSE None
    IN IF img_shape.some
       THEN LET clamped == [a \in 1..Min(m, Len(img_shape.v)) |->
                               clamp_offset(offset[a], target_img_size[a], img_shape.v[a])]
            IN IF \E a \in 1..Len(clamped) : clamped[a] < 0
               THEN [status |-> "raise", err |-> ErrInsufficient, offset |-> <<>>]
               ELSE [status |-> "ok", err |-> "", offset |-> clamped]
       ELSE [status |-> "ok", err |-> "", offset |-> offset]

(***************************************************************************)
(* Calls of bounding_volume and bounding_volume_offset.                    *)
(***************************************************************************)
VolShapes == {<<a, b, c>> : a \in 1..MaxVol, b \in 1..MaxVol, c \in 1..MaxVol}

TargetSizes == {<<a, b, c>> : a \in 0..MaxVol, b \in 0..MaxVol, c \in 0..MaxVol}

\* The volume of the given shape whose non-zero voxels are those of nz.
Volume(shape, nz) ==
    [shape |-> shape, data |-> [idx \in Indices(shape) |-> IF idx \in nz THEN 5 ELSE 0]]

\* The volumes of a shape with no, one or two non-zero voxels: every
\* bounding box occurs.
SparseVolumes(s) ==
    {Volume(s, {})} \cup {Volume(s, {p, q}) : p \in Indices(s), q \in Indices(s)}

InitBV ==
    /\ pc = "call"
    /\ \E s \in VolShapes, t \in TargetSizes :
           \E v \in SparseVolumes(s) :
               args = [fn |-> "bounding_volume", img |-> v, target_img_size |-> t]
    /\ out = None
    /\ ret = NoReturn
    /\ frame = NoFrame

CallBoundingVolume ==
    /\ pc = "call"
    /\ args.fn = "bounding_volume"
    /\ ret' = bounding_volume(args.img, args.target_img_size)
    /\ pc' = "done"
    /\ UNCHANGED <<args, out, frame>>

NextBV == CallBoundingVolume

SpecBV == InitBV /\ [][NextBV]_vars

\* The volumes of a shape whose non-zero voxels are two opposite corners of
\* a box.
CornerVolumes(s) ==
    {Volume(s, {c[1], c[2]}) :
        c \in {x \in Indices(s) \X Indices(s) : \A a \in 1..3 : x[1][a] <= x[2][a]}}

\* <<extent, min, max>>: an axis of an image and the first and the last
\* non-zero index on it.
AxisBoxes ==
    {b \in (1..MaxLen) \X (0..(MaxLen - 1)) \X (0..(MaxLen - 1)) : b[2] <= b[3] /\ b[3] < b[1]}

\* A call of bounding_volume_offset concerns an image of some shape (field
\* shape): img is the image itself (three axes), or the bounding box of its
\* non-zero voxels (two axes: min_1, min_2, max_1, max_2), and the shape of
\* the image is passed as image_shape or left out.
ArrayCall(v, t, pass) ==
    [fn |-> "bounding_volume_offset",
     shape |-> v.shape,
     img |-> [array |-> TRUE, vol |-> v, bbox |-> <<>>],
     target_img_size |-> t,
     image_shape |-> IF pass THEN Some(v.shape) ELSE None]

BoxCall(b1, b2, t, pass) ==
    [fn |-> "bounding_volume_offset",
     shape |-> <<b1[1], b2[1]>>,
     img |-> [array |-> FALSE, vol |-> NoArray, bbox |-> <<b1[2], b2[2], b1[3], b2[3]>>],
     target_img_size |-> t,
     image_shape |-> IF pass THEN Some(<<b1[1], b2[1]>>) ELSE None]

InitBVO ==
    /\ pc = "call"
    /\ \E pass \in BOOLEAN :
           \/ \E s \in VolShapes, t \in TargetSizes :
                  \E v \in CornerVolumes(s) : args = ArrayCall(v, t, pass)
           \/ \E b1 \in AxisBoxes, b2 \in AxisBoxes, t \in (0..MaxTs) \X (0..MaxTs) :
                  args = BoxCall(b1, b2, t, pass)
    /\ out = None
    /\ ret = NoReturn
    /\ frame = NoFrame

CallBoundingVolumeOffset ==
    /\ pc = "call"
    /\ args.fn = "bounding_volume_offset"
    /\ ret' = bounding_volume_offset(args.img, args.target_img_size, args.image_shape)
    /\ pc' = "done"
    /\ UNCHANGED <<args, out, frame>>

NextBVO == CallBoundingVolumeOffset

SpecBVO == InitBVO /\ [][NextBVO]_vars

(***************************************************************************)
(* Properties of bounding_volume and bounding_volume_offset.               *)
(***************************************************************************)
BVDone == pc = "done" /\ args.fn = "bounding_volume"

NonZero(img) == {i \in Indices(img.shape) : img.data[i] # 0}

First(img, a) == SetMin({i[a] : i \in NonZero(img)})

Last(img, a) == SetMax({i[a] : i \in NonZero(img)})

BVInside(a) == 0 <= ret.roi[a][1] /\ ret.roi[a][2] <= args.img.shape[a]

BVContains(a) ==
    LET start == ret.roi[a][1]
        stop == ret.roi[a][2]
    IN \A k \in First(args.img, a)..Last(args.img, a) : start <= k /\ k < stop

BVODone == pc = "done" /\ args.fn = "bounding_volume_offset"

BVOAxes == 1..Len(args.shape)

BVOFits == \A a \in BVOAxes : args.shape[a] >= args.target_img_size[a]

BVOWithin ==
    /\ ret.status = "ok"
    /\ \A a \in BVOAxes : /\ ret.offset[a] >= 0
                           /\ ret.offset[a] + args.target_img_size[a] <= args.shape[a]

\* C5 as stated: whatever the form of img and with or without image_shape,
\* the call returns offsets with 0 <= offset and offset + target <= extent if
\* the image is at least the target size on every axis, and raises the
\* insufficient-size error if it is not.
C5_ClampedForAnyInput ==
    BVODone => IF BVOFits THEN BVOWithin ELSE ret.err = ErrInsufficient

\* C5 (amended): a returned offset is never negative; when the shape of the
\* image is known to the call (img is the volume itself, or image_shape is
\* passed), it returns offsets with offset + target <= extent if the image
\* is at least the target size on every axis and raises the
\* insufficient-size error if it is not.
C5_ClampedWhenShapeKnown ==
    BVODone =>
        /\ ret.status = "ok" => \A a \in BVOAxes : ret.offset[a] >= 0
        /\ (args.img.array \/ args.image_shape.some) =>
               IF BVOFits THEN BVOWithin ELSE ret.err = ErrInsufficient

C5_Witness ==
    /\ BVODone /\ ~args.img.array /\ args.image_shape.some
    /\ args.shape = <<4, 2>>
    /\ args.img.bbox = <<3, 0, 3, 1>>
    /\ args.target_img_size = <<3, 1>>
    /\ ret.status = "ok"
    /\ ret.offset = <<1, 0>>

C5_WitnessRaise ==
    /\ BVODone /\ args.img.array /\ ~args.image_shape.some
    /\ args.shape = <<2, 1, 2>>
    /\ args.target_img_size = <<2, 2, 2>>
    /\ ret.err = ErrInsufficient

\* The bounding box of the call, minima first: the one passed as img, or the
\* one of the non-zero voxels of the volume.
BVOBox == IF args.img.array THEN MinsThenMaxs(bbox_3d(args.img.vol)) ELSE args.img.bbox

BVOMin(a) == BVOBox[a]

BVOMax(a) == BVOBox[Len(args.shape) + a]

\* C14 as stated: when on every axis the target size is at least the number
\* of indices of the box (max - min + 1) and the extent of the image is at
\* least the target size, the window [offset, offset + target size) of every
\* axis contains every index from min to max, for all parities.
C14_WindowCovers ==
    (/\ BVODone
     /\ \A a \in BVOAxes : /\ args.target_img_size[a] >= BVOMax(a) - BVOMin(a) + 1
                           /\ args.shape[a] >= args.target_img_size[a])
    => /\ ret.status = "ok"
       /\ \A a \in BVOAxes : \A k \in BVOMin(a)..BVOMax(a) :
              ret.offset[a] <= k /\ k < ret.offset[a] + args.target_img_size[a]

(***************************************************************************)
(* readLTA                                                                 *)
(*                                                                         *)
(* A line of the transform file is the sequence of its blank-separated     *)
(* tokens.  The routine runs one line at a time: pc is the loop the        *)
(* routine is in (the outer loop, the loop of a section), frame holds the  *)
(* line index i and the dictionary d.                                      *)
(***************************************************************************)
TypeLine == <<"type", "=", "1">>

NxformsLine == <<"nxforms", "=", "1">>

MeanLine == <<"mean", "=", "0.0", "1.0", "0.0">>

SigmaLine == <<"sigma", "=", "1.0">>

\* The line "1 4 4" that precedes the matrix: no branch of the routine reads it.
ShapeLine == <<"1", "4", "4">>

MatrixRows ==
    << <<"1.0", "0.0", "0.0", "0.0">>, <<"0.0", "1.0", "0.0", "0.0">>,
       <<"0.0", "0.0", "1.0", "0.0">>, <<"0.0", "0.0", "0.0", "1.0">> >>

SrcHeader == <<"src", "volume", "info">>

DstHeader == <<"dst", "volume", "info">>

\* The fields of a section; c is the centre coordinate written in cras.
SectionFields(c) ==
    << <<"valid", "=", "1">>, <<"filename", "=", "orig.mgz">>,
       <<"volume", "=", "2", "2", "2">>, <<"voxelsize", "=", "1.0", "1.0", "1.0">>,
       <<"xras", "=", "-1.0", "0.0", "0.0">>, <<"yras", "=", "0.0", "0.0", "-1.0">>,
       <<"zras", "=", "0.0", "1.0", "0.0">>, <<"cras", "=", c, c, c>> >>

\* int(token) and float(token); the numbers of the files are whole.
NumOf == ("0" :> 0) @@ ("1" :> 1) @@ ("2" :> 2) @@ ("4" :> 4) @@
         ("0.0" :> 0) @@ ("1.0" :> 1) @@ ("2.0" :> 2) @@ ("-1.0" :> -1)

\* The tokens matched by the pattern -*[0-9]\.\S+ .
FloatTokens == {"0.0", "1.0", "2.0", "-1.0"}

\* The tokens deleted by re.sub("[a-z]+", "", ...) and re.sub("=", "", ...).
Words == {"type", "nxforms", "mean", "sigma", "src", "dst", "volume", "info",
          "valid", "filename", "voxelsize", "xras", "yras", "zras", "cras"}

IsValueToken(tok) == tok \notin Words /\ tok # "="

\* re.match(key, line) for a one-word key, re.match("... volume info", line)
\* for a header.
MatchKey(key, line) == Len(line) >= 1 /\ line[1] = key

MatchHeader(header, line) == Len(line) >= 3 /\ SubSeq(line, 1, 3) = header

\* re.match of the pattern of a matrix row: four numbers with a decimal point.
MatchRow(line) == Len(line) >= 4 /\ \A k \in 1..4 : line[k] \in FloatTokens

\* The value of a top-level directive: the words and "=" are deleted, what
\* is left is split at blanks.
DirectiveTokens(line) == SelectSeq(line, IsValueToken)

\* The value of a field of a section: everything up to the last "=" is deleted.
RECURSIVE FieldTokens(_)
FieldTokens(line) ==
    IF \E k \in 1..Len(line) : line[k] = "=" THEN FieldTokens(Tail(line)) ELSE line

Numbers(toks) == [k \in 1..Len(toks) |-> NumOf[toks[k]]]

ErrValue == "ValueError: invalid literal for int() or could not convert string to float"

ErrRowIndex == "IndexError: list index out of range"

ErrRowMatch == "AttributeError: 'NoneType' object has no attribute 'string'"

ErrKey == "KeyError"

TopDirectives == <<"type", "nxforms", "mean", "sigma">>

SectionKeys == <<"valid", "filename", "volume", "voxelsize", "xras", "yras", "zras", "cras">>

\* d[key] = value
SetItem(d, key, value) == (key :> value) @@ d

\* The value the outer loop stores for a directive line: int() or float()
\* of one number for type, nxforms and sigma, a list of floats for mean.
directive_value(key, line) ==
    LET toks == DirectiveTokens(line)
    IN IF key = "mean" THEN [err |-> "", v |-> Numbers(toks)]
       ELSE IF Len(toks) # 1 THEN [err |-> ErrValue, v |-> 0]
       ELSE [err |-> "", v |-> NumOf[toks[1]]]

\* The value a section loop stores for a field line: an int for valid, the
\* list of strings for filename, lists of numbers for the others.
field_value(key, line) ==
    LET toks == FieldTokens(line)
    IN IF key = "valid"
       THEN IF Len(toks) # 1 THEN [err |-> ErrValue, v |-> 0]
            ELSE [err |-> "", v |-> NumOf[toks[1]]]
       ELSE IF key = "filename" THEN [err |-> "", v |-> toks]
       ELSE [err |-> "", v |-> Numbers(toks)]

\* The branch of the outer loop taken for a line, in the order of the elifs.
top_branch(line) ==
    IF \E k \in 1..4 : MatchKey(TopDirectives[k], line) THEN "directive"
    ELSE IF MatchRow(line) THEN "matrix"
    ELSE IF MatchHeader(SrcHeader, line) THEN "src"
    ELSE IF MatchHeader(DstHeader, line) THEN "dst"
    ELSE "skip"

FirstKey(keys, line) ==
    keys[CHOOSE k \in 1..Len(keys) :
             /\ MatchKey(keys[k], line)
             /\ \A m \in 1..(k - 1) : ~MatchKey(keys[m], line)]

\* The header that ends the section of the given name.
OtherHeader(section) == IF section = "src" THEN DstHeader ELSE SrcHeader

\* Variant: a section also ends at a top-level directive or a matrix row.
section_ends_at_directive(section, line) ==
    \/ MatchHeader(OtherHeader(section), line)
    \/ top_branch(line) \in {"directive", "matrix"}

\* The condition that ends the loop of a section at a line.
section_ends(section, line) == MatchHeader(OtherHeader(section), line)

\* d["src"] and d["dst"]: the columns xras, yras, zras, cras over the row
\* 0 0 0 1.
full_matrix(d, section) ==
    [r \in 1..4 |->
        IF r = 4 THEN <<0, 0, 0, 1>>
        ELSE <<d[section \o "_xras"][r], d[section \o "_yras"][r],
               d[section \o "_zras"][r], d[section \o "_cras"][r]>>]

RasKeys == {s \o k : s \in {"src", "dst"}, k \in {"_xras", "_yras", "_zras", "_cras"}}

(***************************************************************************)
(* Calls of readLTA: the file is a sequence of up to MaxItems items, an    *)
(* item being a directive line, the shape line, a matrix block (whole or   *)
(* cut after two rows) or a section.                                       *)
(***************************************************************************)
Items ==
    {<<TypeLine>>, <<NxformsLine>>, <<MeanLine>>, <<SigmaLine>>, <<ShapeLine>>,
     MatrixRows, SubSeq(MatrixRows, 1, 2),
     <<SrcHeader>> \o SectionFields("0.0"), <<DstHeader>> \o SectionFields("2.0")}

RECURSIVE Flatten(_)
Flatten(items) == IF Len(items) = 0 THEN <<>> ELSE Head(items) \o Flatten(Tail(items))

InitLTA ==
    /\ pc = "call"
    /\ \E n \in 0..MaxItems : \E items \in [1..n -> Items] :
           args = [fn |-> "readLTA", lta |-> Flatten(items)]
    /\ out = None
    /\ ret = NoReturn
    /\ frame = NoFrame

\* lta[i] of the source, whose index starts at 0.
LineAt(i) == args.lta[i + 1]

RaiseLTA(err) ==
    /\ pc' = "done"
    /\ ret' = [status |-> "raise", err |-> err, d |-> <<>>]
    /\ UNCHANGED <<args, out, frame>>

\* f.readlines(); d = dict(); i = 0
ReadLines ==
    /\ pc = "call"
    /\ args.fn = "readLTA"
    /\ pc' = "loop"
    /\ frame' = [i |-> 0, d |-> <<>>]
    /\ UNCHANGED <<args, out, ret>>

InLoop == pc = "loop" /\ frame.i < Len(args.lta)

\* The branches type, nxforms, mean and sigma of the outer loop.
ReadDirective ==
    /\ InLoop
    /\ top_branch(LineAt(frame.i)) = "directive"
    /\ LET key == FirstKey(TopDirectives, LineAt(frame.i))
           val == directive_value(key, LineAt(frame.i))
       IN IF val.err # "" THEN RaiseLTA(val.err)
          ELSE /\ frame' = [i |-> frame.i + 1, d |-> SetItem(frame.d, key, val.v)]
               /\ UNCHANGED <<pc, args, out, ret>>

\* The branch of the matrix block: lines i .. i + 3 are read as rows.
ReadMatrix ==
    /\ InLoop
    /\ top_branch(LineAt(frame.i)) = "matrix"
    /\ LET bad == {k \in 1..3 : \/ frame.i + k >= Len(args.lta)
                                \/ ~MatchRow(LineAt(frame.i + k))}
           first == CHOOSE k \in bad : \A m \in bad : k <= m
       IN IF bad # {}
          THEN RaiseLTA(IF frame.i + first >= Len(args.lta) THEN ErrRowIndex
                        ELSE ErrRowMatch)
          ELSE /\ frame' = [i |-> frame.i + 4,
                            d |-> SetItem(frame.d, "lta",
                                      [k \in 1..4 |-> Numbers(LineAt(frame.i + k - 1))])]
               /\ UNCHANGED <<pc, args, out, ret>>

\* The branches "src volume info" and "dst volume info": the loop of the
\* section starts at the header line itself.
EnterSection ==
    /\ InLoop
    /\ top_branch(LineAt(frame.i)) \in {"src", "dst"}
    /\ pc' = top_branch(LineAt(frame.i))
    /\ UNCHANGED <<args, out, ret, frame>>

\* The else branch of the outer loop.
SkipLine ==
    /\ InLoop
    /\ top_branch(LineAt(frame.i)) = "skip"
    /\ frame' = [frame EXCEPT !.i = frame.i + 1]
    /\ UNCHANGED <<pc, args, out, ret>>

InSection ==
    /\ pc \in {"src", "dst"}
    /\ frame.i < Len(args.lta)
    /\ ~section_ends(pc, LineAt(frame.i))

\* One turn of the loop of a section: a field line is stored under the
\* name of the section, any other line is passed over.
SectionLine ==
    /\ InSection
    /\ LET line == LineAt(frame.i)
       IN IF \E k \in 1..Len(SectionKeys) : MatchKey(SectionKeys[k], line)
          THEN LET key == FirstKey(SectionKeys, line)
                   val == field_value(key, line)
               IN IF val.err # "" THEN RaiseLTA(val.err)
                  ELSE /\ frame' = [i |-> frame.i + 1,
                                    d |-> SetItem(frame.d, pc \o "_" \o key, val.v)]
                       /\ UNCHANGED <<pc, args, out, ret>>
          ELSE /\ frame' = [frame EXCEPT !.i = frame.i + 1]
               /\ UNCHANGED <<pc, args, out, ret>>

\* The loop of a section ends: control is back in the outer loop.
LeaveSection ==
    /\ pc \in {"src", "dst"}
    /\ ~InSection
    /\ pc' = "loop"
    /\ UNCHANGED <<args, out, ret, frame>>

\* After the outer loop: d["src"] and d["dst"] are built and d is returned.
BuildMatrices ==
    /\ pc = "loop"
    /\ frame.i >= Len(args.lta)
    /\ IF ~(RasKeys \subseteq DOMAIN frame.d) THEN RaiseLTA(ErrKey)
       ELSE LET d == SetItem(SetItem(frame.d, "src", full_matrix(frame.d, "src")),
                             "dst", full_matrix(frame.d, "dst"))
            IN /\ pc' = "done"
               /\ ret' = [status |-> "ok", err |-> "", d |-> d]
               /\ frame' = [frame EXCEPT !.d = d]
               /\ UNCHANGED <<args, out>>

NextLTA ==
    \/ ReadLines
    \/ ReadDirective
    \/ ReadMatrix
    \/ EnterSection
    \/ SkipLine
    \/ SectionLine
    \/ LeaveSection
    \/ BuildMatrices

SpecLTA == InitLTA /\ [][NextLTA]_vars

(***************************************************************************)
(* Properties of readLTA.                                                  *)
(***************************************************************************)
LTADone == pc = "done" /\ args.fn = "readLTA"

\* The outer loop has read the file to its end.
LTAParsed == LTADone /\ ret.err \in {"", ErrKey}

IsHeader(line) == MatchHeader(SrcHeader, line) \/ MatchHeader(DstHeader, line)

\* The lines before the first section header.
Preamble == {k \in 1..Len(args.lta) : \A m \in 1..k : ~IsHeader(args.lta[m])}

\* Line k lies in the given section: the nearest header at or above it is
\* the header of that section.
InSectionOf(section, k) ==
    \E h \in 1..k :
        /\ MatchHeader(IF section = "src" THEN SrcHeader ELSE DstHeader, args.lta[h])
        /\ \A m \in (h + 1)..k : ~IsHeader(args.lta[m])

\* The values written in the lines of the explored files.
DirectiveWritten == [type |-> 1, nxforms |-> 1, mean |-> <<0, 1, 0>>, sigma |-> 1]

FieldWritten(line) ==
    IF line[1] = "valid" THEN NumOf[line[3]]
    ELSE IF line[1] = "filename" THEN <<line[3]>>
    ELSE <<NumOf[line[3]], NumOf[line[4]], NumOf[line[5]]>>

\* A whole matrix block starts at line k.
BlockAt(k) == k + 3 <= Len(args.lta) /\ SubSeq(args.lta, k, k + 3) = MatrixRows

\* d holds the directive exactly when one of the given lines writes it.
DirectiveStored(d, key, lines) ==
    IF \E k \in lines : MatchKey(key, args.lta[k])
    THEN key \in DOMAIN d /\ d[key] = DirectiveWritten[key]
    ELSE key \notin DOMAIN d

\* d holds the matrix exactly when rows stand in the given lines, and then
\* the numbers of the last four of them.
MatrixStored(d, lines) ==
    LET rows == {k \in lines : MatchRow(args.lta[k])}
    IN IF rows = {} THEN "lta" \notin DOMAIN d
       ELSE /\ "lta" \in DOMAIN d
            /\ d["lta"] = [r \in 1..4 |->
                               [c \in 1..4 |-> NumOf[args.lta[SetMax(rows) - 4 + r][c]]]]

\* d holds a field of a section exactly when a line of that section writes
\* it, with the value of the last such line.
FieldStored(d, section, key) ==
    LET lines == {k \in 1..Len(args.lta) :
                     MatchKey(key, args.lta[k]) /\ InSectionOf(section, k)}
        name == section \o "_" \o key
    IN IF lines = {} THEN name \notin DOMAIN d
       ELSE name \in DOMAIN d /\ d[name] = FieldWritten(args.lta[SetMax(lines)])

SectionsStored(d) ==
    \A section \in {"src", "dst"} : \A k \in 1..Len(SectionKeys) :
        FieldStored(d, section, SectionKeys[k])

\* C12 as stated: wherever a top-level directive stands in the file, before,
\* between or after the sections, the dictionary readLTA returns holds it;
\* every section ends at the header of the other section or at the end of
\* the file.
C12_DirectivesAnywhere ==
    (LTADone /\ ret.status = "ok") =>
        /\ \A n \in 1..Len(TopDirectives) :
               (\E k \in 1..Len(args.lta) : MatchKey(TopDirectives[n], args.lta[k]))
                   => /\ TopDirectives[n] \in DOMAIN ret.d
                      /\ ret.d[TopDirectives[n]] = DirectiveWritten[TopDirectives[n]]
        /\ (\E k \in 1..Len(args.lta) : BlockAt(k))
               => "lta" \in DOMAIN ret.d
        /\ SectionsStored(ret.d)

\* C12, amended: when readLTA has read the file to its end, the dictionary
\* holds a top-level directive (type, nxforms, mean, sigma, the matrix
\* block) exactly when the directive stands before the first section
\* header; from a section header on every line up to the header of the other
\* section or the end of the file is read as a line of that section, whose
\* fields are stored in any order and whose other lines, top-level
\* directives included, are skipped; no other key is stored, and the
\* dictionary returned is the one that was filled.
C12_DirectivesBeforeSections ==
    LTAParsed =>
        /\ \A n \in 1..Len(TopDirectives) :
               DirectiveStored(frame.d, TopDirectives[n], Preamble)
        /\ MatrixStored(frame.d, Preamble)
        /\ SectionsStored(frame.d)
        /\ DOMAIN frame.d \subseteq
               {TopDirectives[n] : n \in 1..Len(TopDirectives)} \cup {"lta", "src", "dst"}
                   \cup {s \o "_" \o SectionKeys[k] : s \in {"src", "dst"},
                                                      k \in 1..Len(SectionKeys)}
        /\ ret.status = "ok" => ret.d = frame.d

\* The file: type, the src section, sigma, the dst section.  type is
\* returned, sigma is not.
C12_Witness ==
    /\ LTADone
    /\ args.lta = <<TypeLine>> \o <<SrcHeader>> \o SectionFields("0.0") \o <<SigmaLine>>
                      \o <<DstHeader>> \o SectionFields("2.0")
    /\ ret.status = "ok"
    /\ ret.d["type"] = 1
    /\ "sigma" \notin DOMAIN ret.d
    /\ ret.d["src_cras"] = <<0, 0, 0>>
    /\ ret.d["dst"][1] = <<-1, 0, 0, 2>>

(***************************************************************************)
(* map_size_leg and define_size                                            *)
(***************************************************************************)
ErrAssert == "AssertionError: Borders for unpadding are not correct"

ErrCompare == "ValueError: operands could not be broadcast together"

\* Variant: the half of the input extent is rounded up.
define_size_axis_ceil(mov, ref) ==
    LET new_dim == Max(2 * mov, 2 * ref)
        low == FloorDiv2(new_dim) - FloorDiv2(mov + 1)
    IN [new_dim |-> new_dim, border |-> <<low, low + mov>>]

\* One turn of the loop of define_size: mov is the extent of the input,
\* ref the extent of the base shape.
define_size_axis(mov, ref) ==
    LET new_dim == Max(2 * mov, 2 * ref)
        low == FloorDiv2(new_dim) - FloorDiv2(mov)
    IN [new_dim |-> new_dim, border |-> <<low, low + mov>>]

define_size(mov_dim, ref_dim) ==
    [new_dim |-> [a \in 1..Len(mov_dim) |-> define_size_axis(mov_dim[a], ref_dim[a]).new_dim],
     borders |-> [a \in 1..Len(mov_dim) |-> define_size_axis(mov_dim[a], ref_dim[a]).border]]

\* np.zeros(shape)
np_zeros(shape) == [shape |-> shape, data |-> [idx \in Indices(shape) |-> 0]]

\* dst[lo[0]:hi[0], lo[1]:hi[1], lo[2]:hi[2]] = src, for a block of the shape
\* of src that lies within dst.
SetBlock(dst, lo, src) ==
    [shape |-> dst.shape,
     data |-> [idx \in Indices(dst.shape) |->
                  IF \A a \in 1..Len(lo) : idx[a] >= lo[a] /\ idx[a] < lo[a] + src.shape[a]
                  THEN src.data[[a \in 1..Len(lo) |-> idx[a] - lo[a]]]
                  ELSE dst.data[idx]]]

\* np.all(back_arr == arr) for two arrays whose shapes broadcast, back_arr
\* being stretched along its axes of extent 1.
AllEqual(back_arr, arr) ==
    \A idx \in Indices(arr.shape) :
        back_arr.data[[a \in 1..Len(idx) |-> IF back_arr.shape[a] = 1 THEN 0 ELSE idx[a]]]
            = arr.data[idx]

\* The outcomes of map_size_leg.  The comparison of two arrays whose shapes
\* do not broadcast gives False in one release of numpy and raises in
\* another: both errors are outcomes.
map_size_leg(arr, base_shape, return_border) ==
    IF arr.shape = base_shape
    THEN {[status |-> "ok", err |-> "", arr |-> arr,
           borders |-> IF return_border
                       THEN Some(<<<<0, arr.shape[1]>>, <<0, arr.shape[2]>>, <<0, arr.shape[3]>>>>)
                       ELSE None]}
    ELSE LET ds == define_size(arr.shape, base_shape)
             new_arr == SetBlock(np_zeros(ds.new_dim), [a \in 1..3 |-> ds.borders[a][1]], arr)
             middle_point == [a \in 1..3 |-> FloorDiv2(new_arr.shape[a])]
             padd == [a \in 1..3 |-> TruncDiv2(base_shape[a])]
             low_border == [a \in 1..3 |-> middle_point[a] - padd[a]]
             high_border == [a \in 1..3 |-> low_border[a] + base_shape[a]]
             final_arr == GetItem(new_arr, [a \in 1..3 |-> Slice(low_border[a], high_border[a])])
             low_back_border == [a \in 1..3 |-> ds.borders[a][1] - low_border[a]]
             back_borders == [a \in 1..3 |->
                                 <<low_back_border[a], low_back_border[a] + arr.shape[a]>>]
             back_arr == GetItem(final_arr, [a \in 1..3 |->
                                     Slice(back_borders[a][1], back_borders[a][2])])
             broadcasts == \A a \in 1..3 : \/ back_arr.shape[a] = arr.shape[a]
                                           \/ back_arr.shape[a] = 1
         IN IF ~return_border
            THEN {[status |-> "ok", err |-> "", arr |-> final_arr, borders |-> None]}
            ELSE IF ~broadcasts
            THEN {[status |-> "raise", err |-> e, arr |-> NoArray, borders |-> None] :
                     e \in {ErrAssert, ErrCompare}}
            ELSE IF ~AllEqual(back_arr, arr)
            THEN {[status |-> "raise", err |-> ErrAssert, arr |-> NoArray, borders |-> None]}
            ELSE {[status |-> "ok", err |-> "", arr |-> final_arr,
                   borders |-> Some(back_borders)]}

(***************************************************************************)
(* Calls of map_size_leg.                                                  *)
(***************************************************************************)
InitLeg ==
    /\ pc = "call"
    /\ args \in {[fn |-> "map_size_leg", arr |-> Labelled(s), base_shape |-> b,
                  return_border |-> rb] : s \in Shapes3, b \in Shapes3, rb \in BOOLEAN}
    /\ out = None
    /\ ret = NoReturn
    /\ frame = NoFrame

CallMapSizeLeg ==
    /\ pc = "call"
    /\ args.fn = "map_size_leg"
    /\ ret' \in map_size_leg(args.arr, args.base_shape, args.return_border)
    /\ pc' = "done"
    /\ UNCHANGED <<args, out, frame>>

NextLeg == CallMapSizeLeg

SpecLeg == InitLeg /\ [][NextLeg]_vars

(***************************************************************************)
(* map_size_leg against map_size.                                          *)
(***************************************************************************)
LegDone == pc = "done" /\ args.fn = "map_size_leg"

\* The array of the given shape that holds V with its first voxel at index
\* pos[a] on axis a (a negative pos[a] cuts V on the low side), zero elsewhere.
Placed(V, shape, pos) ==
    [shape |-> shape,
     data |-> [idx \in Indices(shape) |->
                  IF \A a \in 1..Len(shape) : /\ idx[a] - pos[a] >= 0
                                              /\ idx[a] - pos[a] < V.shape[a]
                  THEN V.data[[a \in 1..Len(shape) |-> idx[a] - pos[a]]]
                  ELSE 0]]

\* An axis with an even input extent and an odd base extent.
EvenIntoOdd(a) == args.arr.shape[a] % 2 = 0 /\ args.base_shape[a] % 2 = 1

====
